---- MODULE Spec2Model ----
(***************************************************************************)
(* Deterministic graph clustering of harmony/matching/                     *)
(* deterministic_clustering.py: find_clusters_deterministic and            *)
(* generate_semantic_keywords.                                             *)
(*                                                                         *)
(* Similarities are integers (a similarity s stands for s/10 where a       *)
(* scenario gives decimals); Python indices are kept 0-based, Python lists *)
(* and insertion-ordered dicts are TLA+ sequences (1-based positions).     *)
(***************************************************************************)
EXTENDS Integers, Sequences, FiniteSets, TLC

VARIABLES
    questions,                        \* the items: sequence of question texts
    item_to_item_similarity_matrix,   \* [<<y, x>> |-> similarity]
    shape,                            \* <<shape[0], shape[1]>> of the matrix
    num_clusters,                     \* requested number of clusters
    pc,                               \* "call" | "loop" | "assemble" | "return" | "raise"
    ranked,                           \* sorted(coord_to_sim.items(), ...), line 117
    pos,                              \* position of the for loop in ranked
    nodes,                            \* graph nodes, in insertion order
    adj,                              \* graph adjacency, neighbours in insertion order
    total_score,                      \* Counter of centrality scores
    accepted,                         \* history: the pairs the loop added, in order
    clusters_to_return,               \* the returned list of clusters
    raised,                           \* the exception that ended the call, or "none"
    model,                            \* the embedding provider: [text |-> vector]
    encode_calls,                     \* number of model.encode invocations so far
    cluster_items,                    \* generate_semantic_keywords: the cluster's texts
    top_k,                            \* generate_semantic_keywords: parameter top_k
    top_indices,                      \* generate_semantic_keywords: line 75
    keywords                          \* generate_semantic_keywords: the returned list

\* the state of a direct call of generate_semantic_keywords
kwvars == <<cluster_items, top_k, top_indices, keywords>>

vars == <<questions, item_to_item_similarity_matrix, shape, num_clusters, pc,
          ranked, pos, nodes, adj, total_score, accepted, clusters_to_return,
          raised, model, encode_calls, kwvars>>

(***************************************************************************)
(* Bounds of the checked inputs.                                           *)
(***************************************************************************)
MaxN == 3          \* items / matrix side
MaxK == 3          \* largest num_clusters
MaxW == 2          \* similarities range over -MaxW..MaxW
WideN == 9         \* side of the wide matrices: one index more than the 8
                   \* slots of a small CPython set

(***************************************************************************)
(* Helpers.                                                                *)
(***************************************************************************)
Range(s) == {s[i] : i \in 1..Len(s)}

Max2(a, b) == IF a >= b THEN a ELSE b

Min2(a, b) == IF a <= b THEN a ELSE b

\* a similarity kept with its sign
keep_sign(v) == v

\* np.abs on one entry (line 101)
Abs(v) == IF v < 0 THEN 0 - v ELSE v

\* np.abs(item_to_item_similarity_matrix) (line 101)
abs_similarities(M) == [c \in DOMAIN M |-> Abs(M[c])]

\* coord_to_sim.items(): the dict of lines 103-107 in insertion order, which is
\* row-major: for y in range(shape[0]) for x in range(shape[1])
coord_to_sim(M, sh) ==
    LET a == abs_similarities(M)
    IN  [k \in 1..(sh[1] * sh[2]) |->
            LET y == (k - 1) \div sh[2]
                x == (k - 1) % sh[2]
            IN  [y |-> y, x |-> x, sim |-> a[<<y, x>>]]]

\* the largest key of the items (0 when there is none)
max_sim(items) ==
    IF items = <<>> THEN 0
    ELSE CHOOSE m \in {items[k].sim : k \in 1..Len(items)} :
             \A k \in 1..Len(items) : items[k].sim <= m

\* the items from key w down to key 0, each key's items in reverse order
RECURSIVE by_key_desc_ties_reversed(_, _)
by_key_desc_ties_reversed(items, w) ==
    IF w < 0 THEN <<>>
    ELSE LET same == SelectSeq(items, LAMBDA e : e.sim = w)
         IN  [k \in 1..Len(same) |-> same[Len(same) + 1 - k]]
                 \o by_key_desc_ties_reversed(items, w - 1)

\* a sort that ranks ascending and reverses the result: equal keys come out in
\* reverse order
sorted_asc_then_reversed(items) == by_key_desc_ties_reversed(items, max_sim(items))

\* the items from key w up to key top, each key's items in their original order
RECURSIVE by_key_asc(_, _, _)
by_key_asc(items, w, top) ==
    IF w > top THEN <<>>
    ELSE SelectSeq(items, LAMBDA e : e.sim = w) \o by_key_asc(items, w + 1, top)

\* a sort without reverse=True
sorted_by_sim_asc(items) == by_key_asc(items, 0, max_sim(items))

\* the items from key w down to key 0, each key's items in their original order
RECURSIVE by_key_desc(_, _)
by_key_desc(items, w) ==
    IF w < 0 THEN <<>>
    ELSE SelectSeq(items, LAMBDA e : e.sim = w) \o by_key_desc(items, w - 1)

\* sorted(items, key=lambda x: x[1], reverse=True) (line 117).  Python's sort is
\* stable and reverse=True keeps the original order of equal keys; the keys are
\* non-negative integers, so the result is the items of the largest key in
\* their original order, then those of the next key, and so on
sorted_by_sim_desc(items) == by_key_desc(items, max_sim(items))

(***************************************************************************)
(* networkx.Graph: nodes and adjacency are insertion-ordered dicts.        *)
(***************************************************************************)
NodeIds(sh) == 0..(Max2(sh[1], sh[2]) - 1)

\* a graph left without its nodes
no_initial_nodes(sh) == <<>>

\* graph.add_nodes_from(range(shape[0])) (lines 112-113)
initial_nodes(sh) == [i \in 1..sh[1] |-> i - 1]

AppendNew(s, v) == IF v \in Range(s) THEN s ELSE Append(s, v)

\* graph.add_edge(u, v) (line 122): unknown endpoints become nodes
add_edge_nodes(ns, u, v) == AppendNew(AppendNew(ns, u), v)

\* an edge recorded at one endpoint only
add_edge_adj_directed(a, u, v) == [a EXCEPT ![u] = AppendNew(@, v)]

add_edge_adj(a, u, v) ==
    [a EXCEPT ![u] = AppendNew(@, v), ![v] = AppendNew(@, u)]

\* _plain_bfs: seen, in the order the nodes were added to it
RECURSIVE plain_bfs(_, _, _)
plain_bfs(a, seen, i) ==
    IF i > Len(seen) THEN seen
    ELSE LET v == seen[i]
             fresh == SelectSeq(a[v], LAMBDA w : w \notin Range(seen))
         IN  plain_bfs(a, seen \o fresh, i + 1)

\* nx.connected_components(graph) (lines 119, 129): one component per node not
\* yet seen, in node order; each component is the set built by _plain_bfs,
\* kept here as the sequence of its insertions
RECURSIVE components_from(_, _, _, _)
components_from(ns, a, i, acc) ==
    IF i > Len(ns) THEN acc
    ELSE IF \E k \in 1..Len(acc) : ns[i] \in Range(acc[k])
         THEN components_from(ns, a, i + 1, acc)
         ELSE components_from(ns, a, i + 1,
                              Append(acc, plain_bfs(a, <<ns[i]>>, 1)))

\* the components in the reverse of their order of discovery
connected_components_last_first(ns, a) ==
    LET c == components_from(ns, a, 1, <<>>)
    IN  [k \in 1..Len(c) |-> c[Len(c) + 1 - k]]

connected_components(ns, a) == components_from(ns, a, 1, <<>>)

\* nx.number_connected_components(graph) (line 119)
number_connected_components(ns, a) == Len(connected_components(ns, a))

(***************************************************************************)
(* Iteration order of a CPython set of small non-negative ints (line 130,  *)
(* "for idx in component").  hash(i) = i.  A set of at most 4 elements     *)
(* keeps its 8-slot table: an element goes to slot i & 7, and on a         *)
(* collision to (5*slot + 1) & 7 (the perturbation i >> 5 is 0 below 32).  *)
(* The fifth insertion resizes the table to 32 slots, where every element  *)
(* below 32 sits in its own slot.  Iteration walks the slots in order.     *)
(***************************************************************************)
EmptySlot == 0 - 1

RECURSIVE probe(_, _)
probe(table, i) ==
    IF table[i] = EmptySlot THEN i ELSE probe(table, (i * 5 + 1) % 8)

RECURSIVE set_table(_, _)
set_table(ins, n) ==
    IF n = 0 THEN [i \in 0..7 |-> EmptySlot]
    ELSE LET t == set_table(ins, n - 1)
         IN  [t EXCEPT ![probe(t, ins[n] % 8)] = ins[n]]

RECURSIVE ascending(_)
ascending(S) ==
    IF S = {} THEN <<>>
    ELSE LET m == CHOOSE v \in S : \A w \in S : v <= w
         IN  <<m>> \o ascending(S \ {m})

set_iter(ins) ==
    IF Len(ins) >= 5 THEN ascending(Range(ins))
    ELSE LET t == set_table(ins, Len(ins))
         IN  SelectSeq([i \in 1..8 |-> t[i - 1]], LAMBDA v : v # EmptySlot)

(***************************************************************************)
(* Lines 126-132: question_idx_to_group_idx, as the sequence of its        *)
(* (question index, group index) entries in insertion order.               *)
(***************************************************************************)
RECURSIVE group_entries(_, _)
group_entries(comps, g) ==
    IF g > Len(comps) THEN <<>>
    ELSE LET ids == set_iter(comps[g])
         IN  [k \in 1..Len(ids) |-> [idx |-> ids[k], group |-> g - 1]]
                 \o group_entries(comps, g + 1)

question_idx_to_group_idx(ns, a) == group_entries(connected_components(ns, a), 1)

\* lines 141-144: the member ids of one group, in dict order
item_ids_of(entries, group_idx) ==
    LET mine == SelectSeq(entries, LAMBDA e : e.group = group_idx)
    IN  [k \in 1..Len(mine) |-> mine[k].idx]

\* the key with the lowest score
RECURSIVE min_by_score(_, _, _, _)
min_by_score(ids, score, k, best) ==
    IF k > Len(ids) THEN best
    ELSE min_by_score(ids, score, k + 1,
                      IF score[ids[k]] < score[best] THEN ids[k] ELSE best)

\* the last key with the highest score
RECURSIVE last_max_by_score(_, _, _, _)
last_max_by_score(ids, score, k, best) ==
    IF k > Len(ids) THEN best
    ELSE last_max_by_score(ids, score, k + 1,
                           IF score[ids[k]] >= score[best] THEN ids[k] ELSE best)

\* max(candidate_scores, key=candidate_scores.get) (line 148): the first key,
\* in dict order, whose score no later key beats
RECURSIVE max_by_score(_, _, _, _)
max_by_score(ids, score, k, best) ==
    IF k > Len(ids) THEN best
    ELSE max_by_score(ids, score, k + 1,
                      IF score[ids[k]] > score[best] THEN ids[k] ELSE best)

best_question_idx(ids, score) == max_by_score(ids, score, 2, ids[1])

(***************************************************************************)
(* generate_semantic_keywords (lines 45-78).  An embedding is a vector of  *)
(* two integers.  The cosine similarity of a text to the cluster embedding *)
(* is kept as the fraction sign(c.e) (c.e)^2 / (e.e), which orders the     *)
(* texts as the cosine does (the norm of c is common to all of them), and  *)
(* the sum of the embeddings stands for their mean (the cosine does not    *)
(* change with the factor 1/n).  Floating-point rounding is not modelled.  *)
(***************************************************************************)
Dot(a, b) == a[1] * b[1] + a[2] * b[2]

RECURSIVE vec_sum(_, _)
vec_sum(embeddings, n) ==
    IF n = 0 THEN <<0, 0>>
    ELSE LET s == vec_sum(embeddings, n - 1)
         IN  <<s[1] + embeddings[n][1], s[2] + embeddings[n][2]>>

\* embeddings.mean(axis=0, keepdims=True) (line 69), up to the factor 1/n
cluster_embedding(embeddings) == vec_sum(embeddings, Len(embeddings))

\* cosine_similarity(cluster_embedding, embeddings)[0] (line 72), one entry
cosine_key(c, e) ==
    LET d == Dot(c, e)
    IN  [num |-> IF d < 0 THEN 0 - d * d ELSE d * d, den |-> Dot(e, e)]

sim_less(a, b) == a.num * b.den < b.num * a.den

\* one insertion of a stable ascending sort of indices by similarity
StableInsertAsc(sims, s, i) ==
    LET p == Cardinality({k \in 1..Len(s) : ~ sim_less(sims[i + 1], sims[s[k] + 1])})
    IN  SubSeq(s, 1, p) \o <<i>> \o SubSeq(s, p + 1, Len(s))

\* similarities.argsort() (line 75): indices by ascending similarity; numpy sorts
\* an array this short by insertion, which keeps equal entries in index order
RECURSIVE argsort_prefix(_, _)
argsort_prefix(sims, n) ==
    IF n = 0 THEN <<>>
    ELSE StableInsertAsc(sims, argsort_prefix(sims, n - 1), n - 1)

argsort(sims) == argsort_prefix(sims, Len(sims))

\* s[start:] (line 75, with start = -top_k)
py_slice_from(s, start) ==
    LET n == Len(s)
        b == IF start < 0 THEN Max2(n + start, 0) ELSE Min2(start, n)
    IN  SubSeq(s, b + 1, n)

\* s[::-1] (line 75)
reversed(s) == [k \in 1..Len(s) |-> s[Len(s) + 1 - k]]

\* lines 66-72: the similarity of every text to the cluster embedding
similarities_of(m, texts) ==
    LET embeddings == [k \in 1..Len(texts) |-> m[texts[k]]]
        c          == cluster_embedding(embeddings)
    IN  [k \in 1..Len(texts) |-> cosine_key(c, embeddings[k])]

\* line 75: similarities.argsort()[-top_k:][::-1]
select_top_indices(m, texts, k) ==
    reversed(py_slice_from(argsort(similarities_of(m, texts)), 0 - k))

\* an encode that runs before the empty check
encode_always(texts) == 1

\* lines 62-66: model.encode runs once, unless the cluster is empty
encode_invocations(texts) == IF texts = <<>> THEN 0 ELSE 1

\* lines 61-78
generate_semantic_keywords(m, items, k) ==
    LET texts == items
    IN  IF texts = <<>> THEN <<>>
        ELSE LET idx == select_top_indices(m, texts, k)
             IN  [j \in 1..Len(idx) |-> texts[idx[j] + 1]]

\* default of the top_k parameter (line 45)
DefaultTopK == 5

\* lines 136-164: one HarmonyCluster
make_cluster(qs, m, entries, score, group_no, group_idx) ==
    LET ids  == item_ids_of(entries, group_idx)
        its  == [k \in 1..Len(ids) |-> qs[ids[k] + 1]]
        best == best_question_idx(ids, score)
    IN  [cluster_id       |-> group_no,
         centroid_id      |-> best,
         centroid         |-> qs[best + 1],
         items            |-> its,
         item_ids         |-> ids,
         text_description |-> qs[best + 1],
         keywords         |-> generate_semantic_keywords(m, its, DefaultTopK)]

\* a result that holds one (memberless) cluster when there is no group
assemble_at_least_one(qs, m, ns, a, score) ==
    LET entries == question_idx_to_group_idx(ns, a)
        ngroups == Cardinality({entries[k].group : k \in 1..Len(entries)})
    IN  IF ngroups = 0
        THEN <<[cluster_id |-> 0, item_ids |-> <<>>, items |-> <<>>]>>
        ELSE [g \in 1..ngroups |-> make_cluster(qs, m, entries, score, g - 1, g - 1)]

\* lines 134-166: all_groups is {0..g-1}, so sorted(all_groups) enumerates it
\* in order and group_no = group_idx
assemble_clusters(qs, m, ns, a, score) ==
    LET entries == question_idx_to_group_idx(ns, a)
        ngroups == Cardinality({entries[k].group : k \in 1..Len(entries)})
    IN  [g \in 1..ngroups |-> make_cluster(qs, m, entries, score, g - 1, g - 1)]

(***************************************************************************)
(* Inputs.                                                                 *)
(***************************************************************************)
Coords(R, C) == (0..(R - 1)) \X (0..(C - 1))

NonZero == {v \in (0 - MaxW)..MaxW : v # 0}

\* the R x C matrix that is 0 outside the coordinates f gives a value to
Filled(R, C, f) == [c \in Coords(R, C) |-> IF c \in DOMAIN f THEN f[c] ELSE 0]

\* R x C matrices that are 0 except at one or two marked coordinates (any sign,
\* symmetric or not, on or off the diagonal), and the zero matrix
SparseMatrices(R, C) ==
    LET supports == {{}} \cup {{c, d} : c, d \in Coords(R, C)}
        fills    == UNION {[S -> NonZero] : S \in supports}
    IN  {Filled(R, C, f) : f \in fills}

\* R x C matrices that are 0 except at one marked coordinate
OneEntryMatrices(R, C) ==
    {Filled(R, C, [c \in {d} |-> v]) : d \in Coords(R, C), v \in NonZero}

\* symmetric N x N matrices of positive similarities with the largest
\* similarity on the diagonal, as an embedding's cosine matrix has
SymmetricMatrices(N) ==
    LET pairs == {{i, j} : i, j \in 0..(N - 1)} \ {{i} : i \in 0..(N - 1)}
    IN  {[c \in Coords(N, N) |-> IF c[1] = c[2] THEN MaxW ELSE u[{c[1], c[2]}]] :
            u \in [pairs -> 1..MaxW]}

\* N questions; the text of the question at index i is i
Questions(N) == [i \in 1..N |-> i - 1]

\* an embedding provider for the texts 0..N-1: pairwise non-parallel vectors
Encoder(N) == [t \in 0..(N - 1) |-> <<t + 1, N - t>>]

Entered(qs, M, sh, k) ==
    /\ questions = qs
    /\ item_to_item_similarity_matrix = M
    /\ shape = sh
    /\ num_clusters = k
    /\ pc = "call"
    /\ ranked = <<>>
    /\ pos = 0
    /\ nodes = <<>>
    /\ adj = [i \in NodeIds(sh) |-> <<>>]
    /\ total_score = [i \in NodeIds(sh) |-> 0]
    /\ accepted = <<>>
    /\ clusters_to_return = <<>>
    /\ raised = "none"
    /\ model = Encoder(Len(qs))
    /\ encode_calls = 0
    /\ cluster_items = <<>>
    /\ top_k = DefaultTopK
    /\ top_indices = <<>>
    /\ keywords = <<>>

\* every call with N items and an N x N matrix
Init ==
    \E N \in 0..MaxN :
      \E M \in SparseMatrices(N, N) \cup SymmetricMatrices(N) :
        \E k \in (0 - 1)..MaxK :
          Entered(Questions(N), M, <<N, N>>, k)

(***************************************************************************)
(* Actions.                                                                *)
(***************************************************************************)
\* lines 101-117: abs, coord_to_sim, total_score, the graph's nodes, the sort
Rank ==
    /\ pc = "call"
    /\ ranked' = sorted_by_sim_desc(coord_to_sim(item_to_item_similarity_matrix, shape))
    /\ pos' = 1
    /\ nodes' = initial_nodes(shape)
    /\ pc' = "loop"
    /\ UNCHANGED <<questions, item_to_item_similarity_matrix, shape, num_clusters,
                   adj, total_score, accepted, clusters_to_return, raised,
                   model, encode_calls, kwvars>>

\* a stop test that lets the merge run one group too far
stop_test_strict(ns, a, k) == number_connected_components(ns, a) < k

\* line 119: the stop test of the loop
stop_test(ns, a, k) == number_connected_components(ns, a) <= k

\* a score update that credits one endpoint only
add_score_one_end(score, x, y, sim) == [score EXCEPT ![x] = @ + sim]

\* lines 123-124: both endpoints gain the pair's similarity
add_score(score, x, y, sim) == [score EXCEPT ![x] = @ + sim, ![y] = @ + sim]

\* lines 117-124: the for loop from position p on, as a function of its inputs
RECURSIVE merge_from(_, _, _, _, _, _)
merge_from(rk, p, ns, a, score, k) ==
    IF p > Len(rk) THEN [nodes |-> ns, adj |-> a, total_score |-> score]
    ELSE LET e == rk[p]
         IN  IF e.x = e.y THEN merge_from(rk, p + 1, ns, a, score, k)
             ELSE IF stop_test(ns, a, k)
             THEN [nodes |-> ns, adj |-> a, total_score |-> score]
             ELSE merge_from(rk, p + 1, add_edge_nodes(ns, e.y, e.x),
                             add_edge_adj(a, e.y, e.x),
                             add_score(score, e.x, e.y, e.sim), k)

\* lines 101-166: the clusters and scores of a call that returns
find_clusters_deterministic(qs, M, sh, k) ==
    LET rk == sorted_by_sim_desc(coord_to_sim(M, sh))
        g  == merge_from(rk, 1, initial_nodes(sh), [i \in NodeIds(sh) |-> <<>>],
                         [i \in NodeIds(sh) |-> 0], k)
    IN  [clusters_to_return |->
             assemble_clusters(qs, Encoder(Len(qs)), g.nodes, g.adj, g.total_score),
         total_score |-> g.total_score]

\* lines 117-124: one iteration of the for loop (or its end)
LoopStep ==
    /\ pc = "loop"
    /\ IF pos > Len(ranked)
       THEN /\ pc' = "assemble"
            /\ UNCHANGED <<pos, nodes, adj, total_score, accepted>>
       ELSE LET y == ranked[pos].y
                x == ranked[pos].x
                sim == ranked[pos].sim
            IN  IF x = y
                THEN /\ pos' = pos + 1
                     /\ UNCHANGED <<pc, nodes, adj, total_score, accepted>>
                ELSE IF stop_test(nodes, adj, num_clusters)
                THEN /\ pc' = "assemble"
                     /\ UNCHANGED <<pos, nodes, adj, total_score, accepted>>
                ELSE /\ nodes' = add_edge_nodes(nodes, y, x)
                     /\ adj' = add_edge_adj(adj, y, x)
                     /\ total_score' = add_score(total_score, x, y, sim)
                     /\ accepted' = Append(accepted, ranked[pos])
                     /\ pos' = pos + 1
                     /\ UNCHANGED pc
    /\ UNCHANGED <<questions, item_to_item_similarity_matrix, shape, num_clusters,
                   ranked, clusters_to_return, raised, model, encode_calls, kwvars>>

\* lines 126-166: build the clusters; questions[question_idx] (line 143) raises
\* IndexError for a node the item list does not have
Assemble ==
    /\ pc = "assemble"
    /\ IF \E k \in 1..Len(nodes) : nodes[k] >= Len(questions)
       THEN /\ pc' = "raise"
            /\ raised' = "IndexError"
            /\ UNCHANGED <<clusters_to_return, encode_calls>>
       ELSE /\ pc' = "return"
            /\ clusters_to_return' =
                   assemble_clusters(questions, model, nodes, adj, total_score)
            /\ encode_calls' = encode_calls + Len(clusters_to_return')
            /\ UNCHANGED raised
    /\ UNCHANGED <<questions, item_to_item_similarity_matrix, shape, num_clusters,
                   ranked, pos, nodes, adj, total_score, accepted, model, kwvars>>

Next == Rank \/ LoopStep \/ Assemble

Spec == Init /\ [][Next]_vars

(***************************************************************************)
(* Calls whose matrix does not have the shape N x N.                       *)
(***************************************************************************)
InitShape ==
    \E N \in 0..MaxN, R \in 0..MaxN, C \in 0..MaxN :
      /\ <<R, C>> # <<N, N>>
      /\ \E M \in SparseMatrices(R, C) :
           \E k \in 1..MaxK :
             Entered(Questions(N), M, <<R, C>>, k)

SpecShape == InitShape /\ [][Next]_vars

(***************************************************************************)
(* The scenario of four items A, B, C, D (indices 0..3), num_clusters = 2, *)
(* sim(A,B) = 0.9 and sim(C,D) = 0.8, in tenths.  The cross pairs take     *)
(* values that are at most 0.1, negative ones included; the diagonal and   *)
(* the mirrored entries (B,A), (D,C) are left to the caller.               *)
(***************************************************************************)
CrossPairs == {{i, j} : i \in {0, 1}, j \in {2, 3}}

CrossValues == {0 - 10, 0 - 1, 0, 1}

ScenarioMatrix(diag, ba, dc, cross) ==
    [c \in Coords(4, 4) |->
        IF c[1] = c[2] THEN diag
        ELSE IF c = <<0, 1>> THEN 9
        ELSE IF c = <<1, 0>> THEN ba
        ELSE IF c = <<2, 3>> THEN 8
        ELSE IF c = <<3, 2>> THEN dc
        ELSE cross[{c[1], c[2]}]]

InitScenario ==
    \E diag \in {0, 10}, ba \in {0, 9}, dc \in {0, 8} :
      \E cross \in [CrossPairs -> CrossValues] :
        Entered(Questions(4), ScenarioMatrix(diag, ba, dc, cross), <<4, 4>>, 2)

SpecScenario == InitScenario /\ [][Next]_vars

(***************************************************************************)
(* Calls with WideN items and a matrix with one non-zero similarity, merged *)
(* down to WideN - 1 or WideN - 2 clusters.                                *)
(***************************************************************************)
InitWide ==
    \E M \in OneEntryMatrices(WideN, WideN) :
      \E k \in {WideN - 2, WideN - 1} :
        Entered(Questions(WideN), M, <<WideN, WideN>>, k)

SpecWide == InitWide /\ [][Next]_vars

(***************************************************************************)
(* Direct calls of generate_semantic_keywords(cluster_items, top_k): a     *)
(* cluster of up to MaxItems questions with texts 0..2 (two questions may  *)
(* share a text), any top_k in 0..MaxTopK, and any provider that embeds    *)
(* each text as one of three pairwise non-parallel vectors.                *)
(***************************************************************************)
MaxItems == 3      \* largest cluster of a direct call
MaxTopK == 4       \* largest top_k of a direct call

KwTexts == {0, 1, 2}

KwVectors == {<<1, 0>>, <<1, 1>>, <<0, 1>>}

KwClusters == UNION {[1..n -> KwTexts] : n \in 0..MaxItems}

InitKeywords ==
    \E items \in KwClusters, k \in 0..MaxTopK, m \in [KwTexts -> KwVectors] :
      /\ cluster_items = items
      /\ top_k = k
      /\ model = m
      /\ encode_calls = 0
      /\ top_indices = <<>>
      /\ keywords = <<>>
      /\ pc = "kw_call"
      /\ questions = <<>>
      /\ item_to_item_similarity_matrix = <<>>
      /\ shape = <<0, 0>>
      /\ num_clusters = 0
      /\ ranked = <<>>
      /\ pos = 0
      /\ nodes = <<>>
      /\ adj = <<>>
      /\ total_score = <<>>
      /\ accepted = <<>>
      /\ clusters_to_return = <<>>
      /\ raised = "none"

\* lines 61-78: one call of generate_semantic_keywords
GenerateKeywords ==
    /\ pc = "kw_call"
    /\ pc' = "kw_return"
    /\ encode_calls' = encode_calls + encode_invocations(cluster_items)
    /\ top_indices' = IF cluster_items = <<>> THEN <<>>
                      ELSE select_top_indices(model, cluster_items, top_k)
    /\ keywords' = generate_semantic_keywords(model, cluster_items, top_k)
    /\ UNCHANGED <<questions, item_to_item_similarity_matrix, shape, num_clusters,
                   ranked, pos, nodes, adj, total_score, accepted,
                   clusters_to_return, raised, model, cluster_items, top_k>>

NextKeywords == GenerateKeywords

SpecKeywords == InitKeywords /\ [][NextKeywords]_vars

(***************************************************************************)
(* Properties.                                                             *)
(***************************************************************************)
NumItems == Len(questions)

ValidShape == shape = <<NumItems, NumItems>>

Clusters == 1..Len(clusters_to_return)

Members(c) == Range(clusters_to_return[c].item_ids)

\* C1: a call with N >= 1 items, an N x N matrix and num_clusters >= 1 ends by
\* returning, and returns exactly min(num_clusters, N) clusters.
ClusterCountIsMin ==
    (pc \in {"return", "raise"} /\ ValidShape /\ NumItems >= 1 /\ num_clusters >= 1)
        => /\ pc = "return"
           /\ Len(clusters_to_return) = Min2(num_clusters, NumItems)

\* a call that merged three items down to two clusters
ClusterCountReached ==
    /\ pc = "return"
    /\ ValidShape
    /\ NumItems = 3
    /\ num_clusters = 2
    /\ accepted # <<>>
    /\ Len(clusters_to_return) = 2

\* C2: for a valid input the item_ids lists of the returned clusters partition
\* 0..N-1: no cluster is empty, every id is an index of an item, and every
\* index occurs at exactly one position of exactly one cluster.
ItemIdsPartition ==
    (pc = "return" /\ ValidShape /\ num_clusters >= 1)
        => /\ \A c \in Clusters : clusters_to_return[c].item_ids # <<>>
           /\ \A c \in Clusters : Members(c) \subseteq 0..(NumItems - 1)
           /\ \A i \in 0..(NumItems - 1) :
                Cardinality({cp \in Clusters \X (1..NumItems) :
                               /\ cp[2] <= Len(clusters_to_return[cp[1]].item_ids)
                               /\ clusters_to_return[cp[1]].item_ids[cp[2]] = i}) = 1

\* a returned clustering with a merged cluster and a singleton
PartitionReached ==
    /\ pc = "return"
    /\ ValidShape
    /\ num_clusters >= 1
    /\ NumItems = 3
    /\ \E c, d \in Clusters :
          /\ Len(clusters_to_return[c].item_ids) = 2
          /\ Len(clusters_to_return[d].item_ids) = 1

\* C3: the centroid of every returned cluster is one of its members, and no
\* member of the cluster has a higher final total_score.
CentroidIsTopMember ==
    pc = "return"
        => \A c \in Clusters :
             /\ clusters_to_return[c].centroid_id \in Members(c)
             /\ \A m \in Members(c) :
                  total_score[clusters_to_return[c].centroid_id] >= total_score[m]

\* a returned cluster whose centroid is not its first member and outscores
\* another member
CentroidChosenByScore ==
    /\ pc = "return"
    /\ \E c \in Clusters :
          /\ clusters_to_return[c].centroid_id # clusters_to_return[c].item_ids[1]
          /\ \E m \in Members(c) :
                total_score[m] < total_score[clusters_to_return[c].centroid_id]

\* C4: a call with num_clusters <= 0 is rejected: it adds no pair to the graph
\* and returns nothing.
NonPositiveCountRejected ==
    num_clusters <= 0 => (accepted = <<>> /\ pc # "return")

\* C5: a call whose matrix is not N x N fails with an error before any merging
\* and never returns.
ShapeMismatchRejected ==
    ~ ValidShape => (accepted = <<>> /\ pc # "return")


\* C6 (two runs on identical inputs give identical outputs) compares two
\* behaviours; every step of the call is a function of the state, so the model
\* has one behaviour per input and no formula over it can fail.

InScenario ==
    /\ NumItems = 4
    /\ ValidShape
    /\ num_clusters = 2
    /\ item_to_item_similarity_matrix[<<0, 1>>] = 9
    /\ item_to_item_similarity_matrix[<<2, 3>>] = 8

CrossCoords == ({0, 1} \X {2, 3}) \cup ({2, 3} \X {0, 1})

\* every cross pair has similarity <= 0.1
CrossAtMostTenth == \A c \in CrossCoords : item_to_item_similarity_matrix[c] <= 1

\* every cross pair has |similarity| <= 0.1
CrossWithinTenth == \A c \in CrossCoords : Abs(item_to_item_similarity_matrix[c]) <= 1

Symmetric ==
    \A c \in DOMAIN item_to_item_similarity_matrix :
        item_to_item_similarity_matrix[c] = item_to_item_similarity_matrix[<<c[2], c[1]>>]

\* two clusters, {A,B} with centroid A and {C,D} with centroid C
TwoPairsResult ==
    /\ Len(clusters_to_return) = 2
    /\ {<<Members(c), clusters_to_return[c].centroid_id>> : c \in Clusters}
           = {<<{0, 1}, 0>>, <<{2, 3}, 2>>}

\* C7 as written: in the scenario, with every cross pair's similarity <= 0.1,
\* the result is the two clusters {A,B} and {C,D} with centroids A and C.
ScenarioTwoPairsCrossAtMost ==
    (pc = "return" /\ InScenario /\ CrossAtMostTenth) => TwoPairsResult

\* C7 amended: in the scenario, with every cross pair's |similarity| <= 0.1,
\* the call returns the two clusters {A,B} and {C,D} with centroids A and C.
ScenarioTwoPairs ==
    (pc \in {"return", "raise"} /\ InScenario /\ CrossWithinTenth)
        => (pc = "return" /\ TwoPairsResult)

\* the scenario returned {A,B} and {C,D} with a cross pair of similarity -0.1
ScenarioTwoPairsReached ==
    /\ pc = "return"
    /\ InScenario
    /\ CrossWithinTenth
    /\ item_to_item_similarity_matrix[<<0, 2>>] = 0 - 1
    /\ Len(accepted) >= 2
    /\ TwoPairsResult

\* C8 as written: in the scenario with a symmetric matrix, each member of an
\* accepted pair gets the pair's weight once (the loop adds no pair of items
\* twice), and the final scores are A = B = 0.9 and C = D = 0.8.
ScenarioScoresOnce ==
    (InScenario /\ Symmetric /\ CrossAtMostTenth)
        => /\ \A i, j \in 1..Len(accepted) :
                {accepted[i].y, accepted[i].x} = {accepted[j].y, accepted[j].x}
                    => i = j
           /\ pc = "return"
                => /\ total_score[0] = 9 /\ total_score[1] = 9
                   /\ total_score[2] = 8 /\ total_score[3] = 8

\* C8 amended: in the scenario with a symmetric matrix and cross pairs of
\* |similarity| <= 0.1, A and B get 0.9 twice, once for (A,B) and once for
\* (B,A), and C and D get 0.8 once: A = B = 1.8 and C = D = 0.8.
ScenarioScores ==
    (pc = "return" /\ InScenario /\ Symmetric /\ CrossWithinTenth)
        => /\ total_score[0] = 18 /\ total_score[1] = 18
           /\ total_score[2] = 8 /\ total_score[3] = 8

\* the symmetric scenario returned after accepting (A,B), (B,A) and (C,D)
ScenarioScoresReached ==
    /\ pc = "return"
    /\ InScenario
    /\ Symmetric
    /\ CrossWithinTenth
    /\ Len(accepted) = 3
    /\ total_score[0] = total_score[1]
    /\ total_score[2] = total_score[3]

\* the members of cluster c that share its highest total_score
TopMembers(c) ==
    {m \in Members(c) : \A n \in Members(c) : total_score[m] >= total_score[n]}

\* C9: the centroid of every returned cluster is the smallest index among the
\* members that share the cluster's highest total_score.
TieBrokenBySmallestIndex ==
    pc = "return"
        => \A c \in Clusters :
             /\ clusters_to_return[c].centroid_id \in TopMembers(c)
             /\ \A m \in TopMembers(c) : clusters_to_return[c].centroid_id <= m

\* e is ranked before f: larger weight first, then smaller row, then smaller
\* column
Before(e, f) ==
    \/ e.sim > f.sim
    \/ /\ e.sim = f.sim
       /\ (e.y < f.y \/ (e.y = f.y /\ e.x < f.x))

OffDiagonal(s) == SelectSeq(s, LAMBDA e : e.x # e.y)

\* C10: the loop walks the coordinates of the matrix in one fixed order, by
\* descending |similarity| and, for equal weights, ascending (row, column); the
\* pairs it has added are the off-diagonal pairs before its position, in that
\* order.
RankedInFixedOrder ==
    pc # "call"
        => /\ Len(ranked) = shape[1] * shape[2]
           /\ \A p \in 1..Len(ranked) :
                ranked[p].sim =
                    Abs(item_to_item_similarity_matrix[<<ranked[p].y, ranked[p].x>>])
           /\ \A p, q \in 1..Len(ranked) : p < q => Before(ranked[p], ranked[q])
           /\ accepted = OffDiagonal(SubSeq(ranked, 1, pos - 1))

\* the loop added a pair and then two pairs of one equal, smaller weight
EqualWeightsRanked ==
    /\ pc = "return"
    /\ Len(accepted) >= 3
    /\ accepted[1].sim > accepted[2].sim
    /\ accepted[2].sim = accepted[3].sim

\* the similarity of the member at index i (0-based) to the cluster embedding
MemberSimilarity(i) == similarities_of(model, cluster_items)[i + 1]

\* C13: for a non-empty cluster and top_k >= 0, generate_semantic_keywords
\* returns exactly min(top_k, cluster size) texts, each the text of a distinct
\* member, in order of non-increasing similarity to the cluster mean.
KeywordsAreTopK ==
    (pc = "kw_return" /\ cluster_items # <<>> /\ top_k >= 0)
        => /\ Len(keywords) = Min2(top_k, Len(cluster_items))
           /\ Len(top_indices) = Len(keywords)
           /\ \A j \in 1..Len(keywords) :
                /\ top_indices[j] \in 0..(Len(cluster_items) - 1)
                /\ keywords[j] = cluster_items[top_indices[j] + 1]
           /\ \A i, j \in 1..Len(top_indices) :
                i < j => /\ top_indices[i] # top_indices[j]
                         /\ ~ sim_less(MemberSimilarity(top_indices[i]),
                                        MemberSimilarity(top_indices[j]))

\* C13 for top_k >= 1 (what the code does): the same statement holds
KeywordsAreTopKPositive ==
    (pc = "kw_return" /\ cluster_items # <<>> /\ top_k >= 1)
        => /\ Len(keywords) = Min2(top_k, Len(cluster_items))
           /\ \A i, j \in 1..Len(top_indices) :
                i < j => /\ top_indices[i] # top_indices[j]
                         /\ ~ sim_less(MemberSimilarity(top_indices[i]),
                                        MemberSimilarity(top_indices[j]))

\* C16: a call with an empty cluster returns an empty list and never invokes
\* model.encode, whatever top_k is.
EmptyClusterSkipsEncode ==
    (pc = "kw_return" /\ cluster_items = <<>>)
        => (keywords = <<>> /\ encode_calls = 0)

\* a call with an empty cluster and top_k = 0 has returned
EmptyClusterReturned ==
    /\ pc = "kw_return"
    /\ cluster_items = <<>>
    /\ top_k = 0
    /\ keywords = <<>>

\* C11: the accepted edges, in the order of their acceptance, are
\* non-increasing in weight.
AcceptedNonIncreasing ==
    \A i, j \in 1..Len(accepted) : i < j => accepted[i].sim >= accepted[j].sim

\* edges of three different weights have been accepted
DecreasingWeightsAccepted ==
    /\ Len(accepted) >= 3
    /\ accepted[1].sim > accepted[2].sim
    /\ accepted[2].sim > accepted[Len(accepted)].sim

\* some entry of the matrix off the diagonal is not zero
SomeOffDiagonalWeight ==
    \E c \in DOMAIN item_to_item_similarity_matrix :
        c[1] # c[2] /\ item_to_item_similarity_matrix[c] # 0

\* C12: with num_clusters >= N >= 1 no edge is ever accepted, every score stays
\* 0, and the result is N singleton clusters, each its own centroid.
AllSingletonsWhenCountCoversItems ==
    (ValidShape /\ NumItems >= 1 /\ num_clusters >= NumItems)
        => /\ accepted = <<>>
           /\ \A i \in DOMAIN adj : adj[i] = <<>>
           /\ \A i \in DOMAIN total_score : total_score[i] = 0
           /\ pc # "raise"
           /\ pc = "return"
                => /\ Len(clusters_to_return) = NumItems
                   /\ \A i \in 0..(NumItems - 1) :
                        \E c \in Clusters :
                            /\ clusters_to_return[c].item_ids = <<i>>
                            /\ clusters_to_return[c].centroid_id = i
                            /\ clusters_to_return[c].centroid = questions[i + 1]

\* a call with num_clusters = N = MaxN and weights on and off the diagonal
\* has returned
SingletonsReturned ==
    /\ pc = "return"
    /\ NumItems = MaxN
    /\ num_clusters = NumItems
    /\ SomeOffDiagonalWeight
    /\ item_to_item_similarity_matrix[<<0, 0>>] # 0
    /\ Len(clusters_to_return) = NumItems

\* C14: a call with no items and a 0 x 0 matrix raises nothing and returns an
\* empty list, for every num_clusters >= 1.
EmptyInputReturnsEmpty ==
    (NumItems = 0 /\ shape = <<0, 0>> /\ num_clusters >= 1)
        => /\ pc # "raise"
           /\ raised = "none"
           /\ clusters_to_return = <<>>

\* a call with no items has returned
EmptyInputReturned ==
    /\ pc = "return"
    /\ NumItems = 0
    /\ shape = <<0, 0>>
    /\ num_clusters >= 1

\* the matrix of the absolute values of the entries
Magnitudes(M) == [c \in DOMAIN M |-> IF M[c] < 0 THEN 0 - M[c] ELSE M[c]]

\* C15: the clusters (members, centroids, ids) and the centrality scores of a
\* call are those of the call on the matrix of absolute values, so any two
\* matrices that differ only in the signs of entries give the same output.
SignInvariant ==
    pc = "return"
        => LET r == find_clusters_deterministic(
                        questions, Magnitudes(item_to_item_similarity_matrix),
                        shape, num_clusters)
           IN  /\ clusters_to_return = r.clusters_to_return
               /\ total_score = r.total_score

\* a call whose matrix has a negative and a positive entry off the diagonal
\* has merged on them and returned
MixedSignsMerged ==
    /\ pc = "return"
    /\ accepted # <<>>
    /\ \E c, d \in DOMAIN item_to_item_similarity_matrix :
         /\ c[1] # c[2]
         /\ d[1] # d[2]
         /\ item_to_item_similarity_matrix[c] < 0
         /\ item_to_item_similarity_matrix[d] > 0

\* the number of groups of the current grouping
NumGroups == number_connected_components(nodes, adj)

\* the step accepts an edge
AcceptsEdge == accepted' # accepted

\* a ranked pair off the diagonal, of non-zero weight, is still unprocessed
PairsRemain ==
    \E p \in pos..Len(ranked) : ranked[p].x # ranked[p].y /\ ranked[p].sim > 0

\* C17: an edge is accepted only in a state with more than num_clusters
\* groups; from a state of the merge with at most num_clusters groups, no
\* step adds an edge or changes a centrality score.
StopRule ==
    [][/\ AcceptsEdge => NumGroups > num_clusters
       /\ (pc # "call" /\ NumGroups <= num_clusters)
            => /\ accepted' = accepted
               /\ adj' = adj
               /\ nodes' = nodes
               /\ total_score' = total_score]_vars

\* the merge has stopped after accepting an edge, with ranked pairs of
\* non-zero weight left unprocessed
StoppedWithPairsLeft ==
    /\ pc = "return"
    /\ accepted # <<>>
    /\ NumGroups = num_clusters
    /\ PairsRemain

\* the groups of a graph are non-empty, pairwise disjoint and cover 0..N-1
GroupsPartition(ns, a) ==
    LET comps == connected_components(ns, a)
    IN  /\ \A g \in 1..Len(comps) : comps[g] # <<>>
        /\ \A g, h \in 1..Len(comps) :
             g # h => Range(comps[g]) \cap Range(comps[h]) = {}
        /\ UNION {Range(comps[g]) : g \in 1..Len(comps)} = 0..(NumItems - 1)

\* u and v are in the same group of the current grouping
SameGroup(u, v) ==
    LET comps == connected_components(nodes, adj)
    IN  \E g \in 1..Len(comps) : {u, v} \subseteq Range(comps[g])

\* C18: at every point of the merge the groups partition 0..N-1; an accepted
\* edge lowers the number of groups by one when its endpoints were in
\* different groups and leaves it unchanged when they were in the same group;
\* no other step of the merge changes the number of groups.
GroupCountSteps ==
    [][/\ pc' # "call" => GroupsPartition(nodes', adj')
       /\ pc # "call" =>
            LET after == number_connected_components(nodes', adj')
            IN  IF AcceptsEdge
                THEN after = IF SameGroup(ranked[pos].y, ranked[pos].x)
                             THEN NumGroups ELSE NumGroups - 1
                ELSE after = NumGroups]_vars

\* two edges have been accepted: one joined two groups, the other did not
MergedOnceInTwoEdges ==
    /\ pc = "loop"
    /\ Len(accepted) = 2
    /\ NumGroups = NumItems - 1

\* the sum of the weights of the first n pairs of s that have i as an endpoint
RECURSIVE WeightAt(_, _, _)
WeightAt(s, n, i) ==
    IF n = 0 THEN 0
    ELSE WeightAt(s, n - 1, i) + (IF i \in {s[n].y, s[n].x} THEN s[n].sim ELSE 0)

\* C19: at every point of the merge the score of item i is the sum of the
\* weights of the accepted pairs that have i as an endpoint, the pairs whose
\* endpoints were already in one group included; no self-pair is accepted or
\* becomes an edge, and a step over a self-pair changes no score and no group.
ScoreIsAcceptedWeight ==
    [][/\ \A i \in DOMAIN total_score :
             total_score'[i] = WeightAt(accepted', Len(accepted'), i)
       /\ \A k \in 1..Len(accepted') : accepted'[k].x # accepted'[k].y
       /\ \A i \in DOMAIN adj : i \notin Range(adj'[i])
       /\ (pc = "loop" /\ pos <= Len(ranked) /\ ranked[pos].x = ranked[pos].y)
            => /\ total_score' = total_score
               /\ adj' = adj
               /\ nodes' = nodes
               /\ accepted' = accepted]_vars

\* a self-pair of non-zero weight was passed over, and a pair and its mirror
\* were both accepted, the second inside one group
MirrorPairScored ==
    /\ pc = "loop"
    /\ Len(accepted) = 2
    /\ ranked[1].x = ranked[1].y
    /\ ranked[1].sim > 0
    /\ accepted[1].sim > 0
    /\ accepted[2].y = accepted[1].x
    /\ accepted[2].x = accepted[1].y
    /\ total_score[accepted[1].x] = 2 * accepted[1].sim

\* the smallest member index of cluster c
SmallestMember(c) == CHOOSE i \in Members(c) : \A j \in Members(c) : i <= j

\* C20: the returned clusters carry cluster_id 0, 1, ..., m-1 in output order,
\* and they are in ascending order of smallest member index, so that cluster 0
\* contains item 0.
ClustersNumberedBySmallestMember ==
    (pc = "return" /\ ValidShape)
        => /\ \A c \in Clusters : clusters_to_return[c].cluster_id = c - 1
           /\ \A c, d \in Clusters : c < d => SmallestMember(c) < SmallestMember(d)
           /\ Clusters # {} => 0 \in Members(1)

\* a result of two clusters whose first holds items 0 and 2
TwoClustersNumbered ==
    /\ pc = "return"
    /\ Len(clusters_to_return) = 2
    /\ Members(1) = {0, 2}
    /\ Members(2) = {1}

====
